---- MODULE Spec2Model ----
(***************************************************************************)
(* Model of hill-fxn-wlogic.py: the Hill response function, its logic      *)
(* (step) approximation, and the slider / radio callbacks that recompute   *)
(* and redraw both curves.                                                 *)
(*                                                                         *)
(* Python's float is binary floating point with round-to-nearest, ties to  *)
(* even.  The model keeps that arithmetic and bounds only the width of the *)
(* significand: a value is [m |-> significand, e |-> exponent], standing   *)
(* for m * 2^e, with m = 0 or 2^(Prec-1) <= m < 2^Prec.  All quantities of *)
(* the program are non-negative, so no sign is carried.  The exponent is   *)
(* unbounded (no overflow or underflow happens within the slider ranges).  *)
(***************************************************************************)
EXTENDS Integers, Sequences, FiniteSets

\* Width of the significand in bits (53 in CPython's float).
Prec == 6
\* Largest exponent n the model draws (the slider goes up to 10).
MaxN == 3
\* Number of equal steps the B and K sliders are sampled at.
SliderSteps == 4
\* Largest numerator k of the inputs k/8 drawn for the pure functions.
MaxArg == 16

----------------------------------------------------------------------------
\* Binary floating point, round to nearest, ties to even.

Pow2(k) == 2 ^ k

RECURSIVE IPow(_, _)
IPow(a, k) == IF k <= 0 THEN 1 ELSE a * IPow(a, k - 1)

\* Number of bits of a, for 0 <= a < 2^31.
BitLen4(a) == IF a < 4 THEN (IF a < 2 THEN a ELSE 2) ELSE (IF a < 8 THEN 3 ELSE 4)
BitLen8(a) == IF a < 16 THEN BitLen4(a) ELSE 4 + BitLen4(a \div 16)
BitLen16(a) == IF a < 256 THEN BitLen8(a) ELSE 8 + BitLen8(a \div 256)
BitLen(a) == IF a < 65536 THEN BitLen16(a) ELSE 16 + BitLen16(a \div 65536)

NaN == [m |-> -1, e |-> 0]
Zero == [m |-> 0, e |-> 0]

\* The float nearest to a * 2^e, for an integer a >= 0.
Round(a, e) ==
    IF a = 0 THEN Zero
    ELSE LET L == BitLen(a) IN
         IF L <= Prec
         THEN [m |-> a * Pow2(Prec - L), e |-> e - (Prec - L)]
         ELSE LET s    == L - Prec
                  q    == a \div Pow2(s)
                  r    == a % Pow2(s)
                  half == Pow2(s - 1)
                  up   == r > half \/ (r = half /\ q % 2 = 1)
                  q1   == IF up THEN q + 1 ELSE q
              IN IF q1 = Pow2(Prec)
                 THEN [m |-> Pow2(Prec - 1), e |-> e + s + 1]
                 ELSE [m |-> q1, e |-> e + s]

FromInt(k) == Round(k, 0)

fmul(x, y) == Round(x.m * y.m, x.e + y.e)

fadd(x, y) ==
    IF x.m = 0 THEN y
    ELSE IF y.m = 0 THEN x
    ELSE IF x.e - y.e > Prec + 1 THEN x
    ELSE IF y.e - x.e > Prec + 1 THEN y
    ELSE LET lo == IF x.e < y.e THEN x.e ELSE y.e
         IN Round(x.m * Pow2(x.e - lo) + y.m * Pow2(y.e - lo), lo)

\* x / y; a zero divisor has no float result.
fdiv(x, y) ==
    IF y.m = 0 THEN NaN
    ELSE IF x.m = 0 THEN Zero
    ELSE LET s   == Prec + 2
             num == x.m * Pow2(s)
             q   == num \div y.m
             st  == IF num % y.m = 0 THEN 0 ELSE 1
         IN Round(2 * q + st, x.e - y.e - s - 1)

\* x ** n for an integer n >= 0; 0 ** 0 is 1.
fpow(x, k) ==
    IF k = 0 THEN FromInt(1)
    ELSE Round(IPow(x.m, k), x.e * k)

flt(x, y) ==
    IF y.m = 0 THEN FALSE
    ELSE IF x.m = 0 THEN TRUE
    ELSE x.e < y.e \/ (x.e = y.e /\ x.m < y.m)

fle(x, y) == x = y \/ flt(x, y)

fmax(x, y) == IF flt(x, y) THEN y ELSE x

\* The float nearest to a/b for integers a >= 0, b > 0: a decimal literal, or
\* the quotient of two integers that the program's float holds exactly.
Lit(a, b) ==
    IF a = 0 THEN Zero
    ELSE LET s   == Prec + 2 + BitLen(b)
             num == a * Pow2(s)
             q   == num \div b
             st  == IF num % b = 0 THEN 0 ELSE 1
         IN Round(2 * q + st, 0 - s - 1)

----------------------------------------------------------------------------
\* The two pure functions.

\* Variant: the x^n term left out of the denominator.
hillfxn_noXn(x, B, K, n) ==
    LET xn == fpow(x, n)
    IN fdiv(fmul(B, xn), fpow(K, n))

\* Variant: the repressor form, K^n in the numerator.
hillfxn_repressor(x, B, K, n) ==
    LET xn == fpow(x, n)
    IN fdiv(fmul(B, fpow(K, n)), fadd(fpow(K, n), xn))

hillfxn(x, B, K, n) ==
    LET xn == fpow(x, n)
    IN fdiv(fmul(B, xn), fadd(fpow(K, n), xn))

\* Variant: inclusive comparison at the threshold.
logic_approx_inclusive(x, B, K) == IF fle(K, x) THEN B ELSE Zero

logic_approx(x, B, K) == IF flt(K, x) THEN B ELSE Zero

----------------------------------------------------------------------------
\* Module-level data of the script.

GridN == 250

\* Variant: a grid that stops at 15.
Xrange_short ==
    LET step == Lit(15, GridN - 1)
    IN [i \in 1..GridN |->
          IF i = GridN THEN FromInt(15) ELSE Round((i - 1) * step.m, step.e)]

\* np.linspace(0, 30, 250): arange(250) * (30 / 249), last point set to 30.
Xrange ==
    LET step == Lit(30, GridN - 1)
    IN [i \in 1..GridN |->
          IF i = GridN THEN FromInt(30) ELSE Round((i - 1) * step.m, step.e)]

\* Initial settings.
B == FromInt(5)
K == FromInt(5)
n == 1

\* Python's max() of a non-empty list.
max(s) ==
    LET R == {s[i] : i \in 1..Len(s)}
    IN CHOOSE v \in R : \A w \in R : fle(w, v)

HillCurve(xs, B_, K_, n_) == [i \in 1..Len(xs) |-> hillfxn(xs[i], B_, K_, n_)]
LogicCurve(xs, B_, K_) == [i \in 1..Len(xs) |-> logic_approx(xs[i], B_, K_)]

\* Values a slider can be dragged to: sample points of [valmin, valmax].
SliderSamples(valmin, valmax, hi) ==
    {valmin, valmax} \cup
    {v \in {Lit(hi * k, SliderSteps) : k \in 0..SliderSteps} :
        fle(valmin, v) /\ fle(v, valmax)}

NsliderVals == 1..MaxN
BsliderVals == SliderSamples(Zero, FromInt(20), 20)
\* Variant: the K slider starts at 0.
KsliderVals_fromZero == SliderSamples(Zero, FromInt(20), 20)

KsliderVals == SliderSamples(Lit(1, 100), FromInt(20), 20)

----------------------------------------------------------------------------
\* The interactive program.

VARIABLES
    Nval, Bval, Kval,   \* Nslider.val, Bslider.val, Kslider.val
    showlogic,          \* the global flag
    ydata,              \* y-data of lines[0], the Hill curve
    ylogicdata,         \* y-data of logicplot[0], the logic curve
    visible,            \* visibility of logicplot[0]
    ylim,               \* y-axis range of ax1, <<bottom, top>>
    lastRadio,          \* label of the most recent radio click
    aB, aK, an,         \* arguments of a call of the pure functions
    hcurve, lcurve      \* their results over the argument values

guivars == <<Nval, Bval, Kval, showlogic, ydata, ylogicdata, visible, ylim,
             lastRadio>>
fnvars == <<aB, aK, an, hcurve, lcurve>>
vars == <<guivars, fnvars>>

\* Variant: the B slider created with a valinit other than B.
GuiInit_valinit ==
    /\ Nval = n
    /\ Bval = FromInt(20)
    /\ Kval = K
    /\ showlogic = FALSE
    /\ ydata = HillCurve(Xrange, B, K, n)
    /\ ylogicdata = LogicCurve(Xrange, B, K)
    /\ ylim = <<Zero, fmul(max(ylogicdata), Lit(11, 10))>>
    /\ visible = FALSE
    /\ lastRadio = "none"

\* State after the script has run up to pylab.show().
GuiInit ==
    /\ Nval = n
    /\ Bval = B
    /\ Kval = K
    /\ showlogic = FALSE
    /\ ydata = HillCurve(Xrange, B, K, n)
    /\ ylogicdata = LogicCurve(Xrange, B, K)
    /\ ylim = <<Zero, fmul(max(ylogicdata), Lit(11, 10))>>
    /\ visible = FALSE
    /\ lastRadio = "none"

\* Variant: the logic curve computed from the K of the previous redraw.
update_staleK ==
    LET n_ == Nval'
        B_ == Bval'
        K_ == Kval'
        y == HillCurve(Xrange, B_, K_, n_)
        ylogic == LogicCurve(Xrange, B_, Kval)
    IN /\ ydata' = y
       /\ ylogicdata' = ylogic
       /\ ylim' = <<Zero, fmax(Lit(1, 10), fmul(max(ylogicdata'), Lit(11, 10)))>>
       /\ visible' = IF showlogic' THEN TRUE ELSE FALSE

\* Variant: the axis range set as in the initial draw, without the floor.
update_noFloor ==
    LET n_ == Nval'
        B_ == Bval'
        K_ == Kval'
        y == HillCurve(Xrange, B_, K_, n_)
        ylogic == LogicCurve(Xrange, B_, K_)
    IN /\ ydata' = y
       /\ ylogicdata' = ylogic
       /\ ylim' = <<Zero, fmul(max(ylogicdata'), Lit(11, 10))>>
       /\ visible' = IF showlogic' THEN TRUE ELSE FALSE

\* update(val): reads the sliders and the flag as they are when it runs.
\* The axis range is taken from the list just handed to logicplot[0].
update ==
    LET n_ == Nval'
        B_ == Bval'
        K_ == Kval'
        y == HillCurve(Xrange, B_, K_, n_)
        ylogic == LogicCurve(Xrange, B_, K_)
    IN /\ ydata' = y
       /\ ylogicdata' = ylogic
       /\ ylim' = <<Zero, fmax(Lit(1, 10), fmul(max(ylogicdata'), Lit(11, 10)))>>
       /\ visible' = IF showlogic' THEN TRUE ELSE FALSE

\* Variant: the label compared with the wrong spelling.
update_logic_spelling(label) ==
    /\ showlogic' = IF label = "on" THEN TRUE ELSE FALSE
    /\ UNCHANGED <<Nval, Bval, Kval>>
    /\ update

\* update_logic(label), the radio callback.
update_logic(label) ==
    /\ showlogic' = IF label = "On" THEN TRUE ELSE FALSE
    /\ UNCHANGED <<Nval, Bval, Kval>>
    /\ update

RadioClicked ==
    \E label \in {"Off", "On"} :
        /\ lastRadio' = label
        /\ update_logic(label)
        /\ UNCHANGED fnvars

NsliderChanged ==
    \E v \in NsliderVals :
        /\ Nval' = v
        /\ UNCHANGED <<Bval, Kval, showlogic, lastRadio>>
        /\ update
        /\ UNCHANGED fnvars

BsliderChanged ==
    \E v \in BsliderVals :
        /\ Bval' = v
        /\ UNCHANGED <<Nval, Kval, showlogic, lastRadio>>
        /\ update
        /\ UNCHANGED fnvars

KsliderChanged ==
    \E v \in KsliderVals :
        /\ Kval' = v
        /\ UNCHANGED <<Nval, Bval, showlogic, lastRadio>>
        /\ update
        /\ UNCHANGED fnvars

FnIdle ==
    /\ aB = Zero
    /\ aK = FromInt(1)
    /\ an = 0
    /\ hcurve = << >>
    /\ lcurve = << >>

Init == GuiInit /\ FnIdle

Next == NsliderChanged \/ BsliderChanged \/ KsliderChanged \/ RadioClicked

Spec == Init /\ [][Next]_vars

----------------------------------------------------------------------------
\* Calls of the two pure functions on bounded inputs.

\* The float next above x (x > 0), and next below it.
Succ(x) ==
    IF x.m + 1 = Pow2(Prec) THEN [m |-> Pow2(Prec - 1), e |-> x.e + 1]
    ELSE [m |-> x.m + 1, e |-> x.e]
Pred(x) ==
    IF x.m = Pow2(Prec - 1) THEN [m |-> Pow2(Prec) - 1, e |-> x.e - 1]
    ELSE [m |-> x.m - 1, e |-> x.e]

\* Argument values: k/8 for k in 0..MaxArg, the initial setting 5, and the
\* float next above 5.
Args ==
    [i \in 1..(MaxArg + 3) |->
        IF i = MaxArg + 3 THEN Succ(FromInt(5))
        ELSE IF i = MaxArg + 2 THEN FromInt(5)
        ELSE Round(i - 1, -3)]

ArgSet == {Args[i] : i \in 1..Len(Args)}

FnInit ==
    /\ aB \in ArgSet
    /\ aK \in ArgSet \ {Zero}
    /\ an \in 0..MaxN
    /\ hcurve = << >>
    /\ lcurve = << >>

CallHill ==
    /\ hcurve = << >>
    /\ hcurve' = HillCurve(Args, aB, aK, an)
    /\ UNCHANGED <<aB, aK, an, lcurve>>
    /\ UNCHANGED guivars

CallLogic ==
    /\ lcurve = << >>
    /\ lcurve' = LogicCurve(Args, aB, aK)
    /\ UNCHANGED <<aB, aK, an, hcurve>>
    /\ UNCHANGED guivars

InitFn == GuiInit /\ FnInit

NextFn == CallHill \/ CallLogic

SpecFn == InitFn /\ [][NextFn]_vars

----------------------------------------------------------------------------
\* Comparisons used to state the properties.

\* x * cx <= y * cy, exactly, for floats x, y and integers 0 < cx, cy < 2^10.
ScaledLe(x, cx, y, cy) ==
    IF x.m = 0 THEN TRUE
    ELSE IF y.m = 0 THEN FALSE
    ELSE LET d == x.e - y.e
         IN IF d > 12 THEN FALSE
            ELSE IF d < -12 THEN TRUE
            ELSE IF d >= 0 THEN x.m * cx * Pow2(d) <= y.m * cy
            ELSE x.m * cx <= y.m * cy * Pow2(0 - d)

\* x / 2, exact.
Half(x) == IF x.m = 0 THEN Zero ELSE [m |-> x.m, e |-> x.e - 1]

IsNumber(x) == x.m >= 0

ArgIdx == 1..Len(Args)

----------------------------------------------------------------------------
\* Properties of the pure functions, checked under SpecFn.

\* C1 as stated: for x >= 0, B >= 0, K > 0, n >= 0 the value of hillfxn lies in
\* the closed interval [0, B].
C1_HillWithinAmplitude ==
    hcurve # << >> =>
        \A i \in ArgIdx : IsNumber(hcurve[i]) /\ fle(hcurve[i], aB)

\* C1 amended: hillfxn lies in [0, B+], where B+ is the float next above B
\* (0 when B = 0): rounding lets the value exceed B by at most one unit in
\* the last place.
C1_HillWithinAmplitudeUlp ==
    hcurve # << >> =>
        \A i \in ArgIdx :
            /\ IsNumber(hcurve[i])
            /\ IF aB = Zero THEN hcurve[i] = Zero
               ELSE fle(hcurve[i], Succ(aB))

C1_Witness ==
    /\ hcurve # << >>
    /\ \E i \in ArgIdx : flt(aB, hcurve[i])

\* C2: logic_approx returns exactly 0 when x <= K (x = K included) and
\* exactly B when x > K; logic(5, 5, 5) = 0 and, for the float next above 5,
\* logic(5+, 5, 5) = 5.
C2_LogicStep ==
    lcurve # << >> =>
        /\ \A i \in ArgIdx :
              /\ fle(Args[i], aK) => lcurve[i] = Zero
              /\ flt(aK, Args[i]) => lcurve[i] = aB
              /\ lcurve[i] \in {Zero, aB}
        /\ (aB = FromInt(5) /\ aK = FromInt(5)) =>
              /\ lcurve[MaxArg + 2] = Zero
              /\ lcurve[MaxArg + 3] = FromInt(5)

C2_Witness ==
    /\ lcurve # << >>
    /\ aB # Zero
    /\ \E i, j \in ArgIdx :
          Args[i] = aK /\ lcurve[i] = Zero /\ lcurve[j] = aB

\* C6 as stated: for n > 0, hillfxn is monotonically increasing in x:
\* x1 < x2 implies hillfxn(x1) <= hillfxn(x2).
C6_HillMonotone ==
    (hcurve # << >> /\ an > 0) =>
        \A i, j \in ArgIdx :
            flt(Args[i], Args[j]) => fle(hcurve[i], hcurve[j])

\* C6 amended: for n > 0, hillfxn is increasing in x up to rounding:
\* x1 < x2 implies hillfxn(x1) <= hillfxn(x2) * (1 + 2^(4 - Prec)).
C6_HillMonotoneUpToRounding ==
    (hcurve # << >> /\ an > 0) =>
        \A i, j \in ArgIdx :
            flt(Args[i], Args[j]) =>
                ScaledLe(hcurve[i], Pow2(Prec), hcurve[j], Pow2(Prec) + 16)

C6_Witness ==
    /\ hcurve # << >>
    /\ an > 0
    /\ \E i, j \in ArgIdx :
          flt(Args[i], Args[j]) /\ flt(hcurve[j], hcurve[i])

\* C7 as stated: for n = 1, hillfxn at x = K is exactly B / 2.
C7_HalfMaximalExact ==
    (hcurve # << >> /\ an = 1) =>
        \A i \in ArgIdx : Args[i] = aK => hcurve[i] = Half(aB)

\* C7 amended: for n = 1, hillfxn at x = K is B / 2 or one of the two floats
\* next to B / 2; hillfxn(5, 5, 5, 1) is exactly 2.5.
C7_HalfMaximalUlp ==
    (hcurve # << >> /\ an = 1) =>
        /\ \A i \in ArgIdx :
              Args[i] = aK =>
                  IF aB = Zero THEN hcurve[i] = Zero
                  ELSE hcurve[i] \in
                         {Pred(Half(aB)), Half(aB), Succ(Half(aB))}
        /\ (aB = FromInt(5) /\ aK = FromInt(5)) =>
              hcurve[MaxArg + 2] = Lit(5, 2)

C7_Witness ==
    /\ hcurve # << >>
    /\ an = 1
    /\ \E i \in ArgIdx : Args[i] = aK /\ hcurve[i] # Half(aB)

----------------------------------------------------------------------------
\* Properties of the interactive program, checked under Spec.

\* C3: a step that leaves the slider values n, B, K as they are (a radio
\* click) leaves the y-data of the Hill curve and of the logic curve, and
\* the axis range, unchanged; only visible and showlogic may change.
C3_RadioKeepsCurves ==
    [][UNCHANGED <<Nval, Bval, Kval>> => UNCHANGED <<ydata, ylogicdata, ylim>>]_vars

C3_Witness ==
    /\ lastRadio = "On"
    /\ visible
    /\ Bval # B
    /\ Kval # K

\* C4: after the initial draw and after every update, the displayed Hill
\* curve is hillfxn over Xrange with the current slider values and the
\* displayed logic curve is logic_approx over Xrange with the same B and K.
C4_CurvesFromCurrentParameters ==
    /\ ydata = HillCurve(Xrange, Bval, Kval, Nval)
    /\ ylogicdata = LogicCurve(Xrange, Bval, Kval)
    /\ Len(ydata) = GridN
    /\ Len(ylogicdata) = GridN

C4_Witness ==
    /\ Nval # n
    /\ Bval # B
    /\ Kval # K
    /\ lastRadio # "none"

\* C5: every update sets the y-axis range to
\* [0, max(0.1, 1.1 * max(logic curve))]; the top is at least 0.1, so the
\* axis never has zero height, also when B = 0.
C5_AxisRangeFloor ==
    [][/\ ylim' = <<Zero, fmax(Lit(1, 10), fmul(max(ylogicdata'), Lit(11, 10)))>>
       /\ fle(Lit(1, 10), ylim'[2])
       /\ flt(ylim'[1], ylim'[2])]_vars

C5_Witness ==
    /\ Bval = Zero
    /\ max(ylogicdata) = Zero
    /\ ylim = <<Zero, Lit(1, 10)>>

\* C8: in every reachable state K > 0, and the denominator K^n + x^n of
\* hillfxn is strictly positive at every grid point, so no division by zero
\* happens and every Hill value is a number.
C8_NoDivisionByZero ==
    /\ flt(Zero, Kval)
    /\ \A i \in 1..GridN :
          /\ flt(Zero, fadd(fpow(Kval, Nval), fpow(Xrange[i], Nval)))
          /\ IsNumber(ydata[i])

C8_Witness ==
    /\ Kval = Lit(1, 100)
    /\ Nval = MaxN
    /\ ydata[1] = Zero

\* C9: the logic overlay is visible exactly when the most recent radio click
\* selected On (hidden when there was no click yet), and its visibility
\* equals showlogic whatever the slider values are.
C9_VisibleIffLastRadioOn ==
    /\ visible = showlogic
    /\ visible <=> (lastRadio = "On")

C9_Witness ==
    /\ lastRadio = "On"
    /\ visible
    /\ Nval # n

\* C10: every value of the displayed Hill curve lies within the y-axis range
\* [0, top]; some grid point exceeds K, so max(logic curve) = B.
C10_HillInsideAxisRange ==
    /\ ylim[1] = Zero
    /\ max(ylogicdata) = Bval
    /\ \A i \in 1..GridN : IsNumber(ydata[i]) /\ fle(ydata[i], ylim[2])

C10_Witness ==
    /\ Kval = FromInt(20)
    /\ Bval = FromInt(20)
    /\ ylogicdata[GridN] = Bval
    /\ ylim[2] = fmul(Bval, Lit(11, 10))
    /\ flt(Lit(1, 10), ydata[GridN])

====
